---- MODULE Spec2Model ----
(***************************************************************************)
(* Media-group aggregation and naming of the Telegram assistant:          *)
(* EventHandler._handle_media_group / _process_media_group_with_delay     *)
(* (src/src/handlers/event_handler.py) and TelegramHandler._extract_title *)
(* / process_media_group (src/src/handlers/telegram_handler.py).          *)
(*                                                                         *)
(* Text is a sequence of one-character tokens; LB, RB and NL stand for    *)
(* the characters U+3010, U+3011 and line feed.  A file name is a         *)
(* sequence of tokens whose last token is its extension.                  *)
(***************************************************************************)
EXTENDS Integers, Sequences, FiniteSets, TLC

\* ------------------------------------------------------------------ bounds

\* Number of album messages delivered in one run.
MaxMsgs == 3
\* Number of distinct grouped_id values.
MaxGroups == 2
MaxBatch == 3
\* Number of messages handled by the single-message path in one run.
MaxSingles == 2
\* Last second the clock reaches.
MaxNow == 1

\* config.get("media_group_delay", 3.0), in ticks of the clock.
media_group_delay == 3
\* _sanitize_filename keeps at most this many characters.
FilenameLimit == 200

GroupIds == 1..MaxGroups

\* ------------------------------------------------------------------ text

LB == "LB"
RB == "RB"
NL == "NL"
\* The literal "无标题媒体组", one opaque token.
DefaultTitle == <<"untitled-group">>

\* Characters removed by the class [<>:"/\\|?*\x00-\x1f]; NL is \x0a.
IllegalChars == {"<", ">", ":", "\"", "/", "\\", "|", "?", "*", NL}
\* str.strip() without arguments removes white space.
WhiteSpace == {" ", NL}

RECURSIVE LStrip(_, _)
LStrip(s, cs) ==
    IF s # <<>> /\ Head(s) \in cs THEN LStrip(Tail(s), cs) ELSE s

RECURSIVE RStrip(_, _)
RStrip(s, cs) ==
    IF s # <<>> /\ s[Len(s)] \in cs THEN RStrip(SubSeq(s, 1, Len(s) - 1), cs) ELSE s

Strip(s, cs) == RStrip(LStrip(s, cs), cs)

\* Index of the first element of s that lies in cs, 0 when there is none.
FirstIn(s, cs) ==
    IF \E i \in 1..Len(s) : s[i] \in cs
    THEN CHOOSE i \in 1..Len(s) : s[i] \in cs /\ \A j \in 1..(i - 1) : s[j] \notin cs
    ELSE 0

NotIllegal(c) == c \notin IllegalChars

sanitize_filename(filename) ==
    LET removed  == SelectSeq(filename, NotIllegal)
        stripped == Strip(removed, {".", " "})
    IN  IF Len(stripped) > FilenameLimit
        THEN SubSeq(stripped, 1, FilenameLimit)
        ELSE stripped

\* Variant: the group is greedy, the match ends at the last RB of the line.
BracketMatch_Greedy(text) ==
    LET Closes(p, q) == /\ q > p
                        /\ text[q] = RB
                        /\ \A k \in (p + 1)..(q - 1) : text[k] # NL
        Opens(p) == text[p] = LB /\ \E q \in 1..Len(text) : Closes(p, q)
    IN  IF \E p \in 1..Len(text) : Opens(p)
        THEN LET p == CHOOSE p0 \in 1..Len(text) :
                          Opens(p0) /\ \A p1 \in 1..(p0 - 1) : ~Opens(p1)
                 q == CHOOSE q0 \in 1..Len(text) :
                          Closes(p, q0) /\ \A q1 \in (q0 + 1)..Len(text) : ~Closes(p, q1)
             IN  <<p, q>>
        ELSE <<0, 0>>

\* re.search(r"LB(.*?)RB", text): the leftmost LB that is followed by an RB
\* with no line break in between, and the nearest such RB.  <<0, 0>> when
\* there is no match.
BracketMatch(text) ==
    LET Closes(p, q) == /\ q > p
                        /\ text[q] = RB
                        /\ \A k \in (p + 1)..(q - 1) : text[k] # NL
        Opens(p) == text[p] = LB /\ \E q \in 1..Len(text) : Closes(p, q)
    IN  IF \E p \in 1..Len(text) : Opens(p)
        THEN LET p == CHOOSE p0 \in 1..Len(text) :
                          Opens(p0) /\ \A p1 \in 1..(p0 - 1) : ~Opens(p1)
                 q == CHOOSE q0 \in 1..Len(text) :
                          Closes(p, q0) /\ \A q1 \in 1..(q0 - 1) : ~Closes(p, q1)
             IN  <<p, q>>
        ELSE <<0, 0>>

extract_title(message_text) ==
    IF message_text = <<>> THEN DefaultTitle
    ELSE
    LET m == BracketMatch(message_text)
    IN  IF m[1] # 0
        THEN LET title_part   == SubSeq(message_text, m[1] + 1, m[2] - 1)
                 rest_of_text == Strip(SubSeq(message_text, m[2] + 1, Len(message_text)),
                                       WhiteSpace)
                 e            == FirstIn(rest_of_text, {NL, "#"})
                 rest_part    == IF e # 0
                                 THEN Strip(SubSeq(rest_of_text, 1, e - 1), WhiteSpace)
                                 ELSE rest_of_text
                 title        == IF rest_of_text # <<>>
                                 THEN <<LB>> \o title_part \o <<RB>> \o rest_part
                                 ELSE <<LB>> \o title_part \o <<RB>>
             IN  sanitize_filename(title)
        ELSE LET n     == FirstIn(message_text, {NL})
                 line0 == Strip(IF n = 0 THEN message_text
                                         ELSE SubSeq(message_text, 1, n - 1), WhiteSpace)
                 h     == FirstIn(line0, {"#"})
                 line1 == Strip(IF h = 0 THEN line0 ELSE SubSeq(line0, 1, h - 1), WhiteSpace)
                 first_line == sanitize_filename(line1)
             IN  IF first_line # <<>> THEN first_line ELSE DefaultTitle


\* ------------------------------------------------------------------ media

\* The three kinds of media an album message carries: an inline photo, a
\* document whose MIME type starts with video/, any other document.
Media == {"Photo", "DocVideo", "DocOther"}

\* Captions of the album messages: none, and a bracketed tag followed by a
\* title line and a description line.
Captions == { <<>>, <<LB, "s", RB, "m", NL, "d">> }

\* Classification inside the download loop.
media_type(media) ==
    IF media = "Photo" THEN "photo"
    ELSE IF media \in {"DocVideo", "DocVideoJpg"} THEN "video"
    ELSE "other"

\* Variant: the caption is taken from the last message of the list.
caption_of_Last(messages) ==
    IF messages[Len(messages)].text # <<>> THEN messages[Len(messages)].text ELSE DefaultTitle

\* messages[0].text or the default caption.
caption_of(messages) ==
    IF messages[1].text # <<>> THEN messages[1].text ELSE DefaultTitle

\* Name the client library gives a download of this media in the temp dir:
\* a generated name for a photo, the file name attribute for a document
\* ("DocFanart": a document whose file name is fanart.jpg; "DocVideoJpg": a
\* video document whose file name ends in .jpg).
DownloadName(media) ==
    IF media = "Photo" THEN <<"photo", ".jpg">>
    ELSE IF media = "DocVideo" THEN <<"video", ".mp4">>
    ELSE IF media = "DocVideoJpg" THEN <<"clip", ".jpg">>
    ELSE IF media = "DocFanart" THEN <<"fanart", ".jpg">>
    ELSE <<"file", ".bin">>

\* download_media never overwrites: it appends " (k)" to the stem until the
\* path is unused.
TempCandidate(name, k) ==
    IF k = 0 THEN name ELSE <<name[1], " (", ToString(k), ")", name[Len(name)]>>

UniqueTemp(name, tmp) ==
    LET Free(k) == TempCandidate(name, k) \notin tmp
        k == CHOOSE k0 \in 0..Cardinality(tmp) :
                 Free(k0) /\ \A k1 \in 0..(k0 - 1) : ~Free(k1)
    IN  TempCandidate(name, k)

\* os.path.splitext(name)[1]
Ext(name) == name[Len(name)]

IsPhoto(f) == f.type = "photo"
IsVideo(f) == f.type = "video"
IsOther(f) == f.type = "other"

\* ------------------------------------------------------------------ naming

\* Variant: the photos after the first are numbered from 2.
photo_filename_FromTwo(i) ==
    IF i = 0 THEN <<"fanart", ".jpg">> ELSE <<"snapshot", ToString(i + 1), ".jpg">>

photo_filename(i) ==
    IF i = 0 THEN <<"fanart", ".jpg">> ELSE <<"snapshot", ToString(i), ".jpg">>

\* Variant: several videos are numbered from 0.
video_filename_FromZero(directory_name, video_count, i, original_ext) ==
    sanitize_filename(
        IF video_count = 1
        THEN directory_name \o <<original_ext>>
        ELSE directory_name \o <<"_", ToString(i), original_ext>>)

video_filename(directory_name, video_count, i, original_ext) ==
    sanitize_filename(
        IF video_count = 1
        THEN directory_name \o <<original_ext>>
        ELSE directory_name \o <<"_", ToString(i + 1), original_ext>>)

\* The moves process_media_group performs, in the order it performs them:
\* photos, then videos, then the other files.
PlannedMoves(media_files, directory_name) ==
    LET photos == SelectSeq(media_files, IsPhoto)
        videos == SelectSeq(media_files, IsVideo)
        others == SelectSeq(media_files, IsOther)
        Mv(f, name) == [src |-> f.temp_path, name |-> name, id |-> f.message_id]
    IN  [i \in 1..Len(photos) |-> Mv(photos[i], photo_filename(i - 1))]
        \o [i \in 1..Len(videos) |->
               Mv(videos[i], video_filename(directory_name, Len(videos), i - 1,
                                            Ext(videos[i].original_filename)))]
        \o [i \in 1..Len(others) |-> Mv(others[i], others[i].original_filename)]

\* shutil.move(temp_path, target_path): the destination is written whether or
\* not it is occupied.
MoveInto(st, directory_name, mv) ==
    (<<directory_name, mv.name>> :> mv.id) @@ st

\* Variant: the except-branch removes nothing.
RemoveTemps_None(tmp, media_files) == tmp

\* except-branch of process_media_group: every temp file of the batch that
\* still exists is removed.
RemoveTemps(tmp, media_files) ==
    tmp \ {media_files[i].temp_path : i \in 1..Len(media_files)}

\* What process_media_group returns beside its flag: group_info with the
\* final name of every file when it succeeds, str(e) when it fails, which
\* names no file.
ReturnedNames(success, names) == IF success THEN names ELSE <<>>

\* process_media_group raises while it works on member id (0: before any
\* member) and returns from its except-branch.
Raised(acc, media_files, id) ==
    [acc EXCEPT !.success  = FALSE,
                !.failed   = id,
                !.temp     = RemoveTemps(@, media_files),
                !.reported = ReturnedNames(FALSE, acc.names)]

\* process_media_group returns after the last move.
Returned(acc) ==
    [acc EXCEPT !.reported = ReturnedNames(TRUE, acc.names)]

\* Variant: the call returns after its first move.
RunMoves_FirstOnly(moves, budget, media_files, acc) ==
    IF moves = <<>> THEN Returned(acc)
    ELSE IF budget = 0 \/ Head(moves).src \notin acc.temp
         THEN Raised(acc, media_files, Head(moves).id)
         ELSE Returned([acc EXCEPT !.store  = MoveInto(@, acc.directory, Head(moves)),
                                   !.temp   = @ \ {Head(moves).src},
                                   !.placed = @ \cup {Head(moves).id},
                                   !.names  = Append(@, [id   |-> Head(moves).id,
                                                         name |-> Head(moves).name])])

\* Runs the moves in order.  budget is the number of moves the file system
\* lets through; a move whose source is missing raises as well.
RECURSIVE RunMoves(_, _, _, _)
RunMoves(moves, budget, media_files, acc) ==
    IF moves = <<>> THEN Returned(acc)
    ELSE IF budget = 0 \/ Head(moves).src \notin acc.temp
         THEN Raised(acc, media_files, Head(moves).id)
         ELSE RunMoves(Tail(moves), budget - 1, media_files,
                       [acc EXCEPT !.store  = MoveInto(@, acc.directory, Head(moves)),
                                   !.temp   = @ \ {Head(moves).src},
                                   !.placed = @ \cup {Head(moves).id},
                                   !.names  = Append(@, [id   |-> Head(moves).id,
                                                         name |-> Head(moves).name])])

\* process_media_group(group_id, media_files, caption) on the file system
\* (st, tmp, ds).  outcome = -1: os.makedirs raises; outcome = k >= 0: the
\* first k moves succeed and the next one, if any, raises.
process_media_group(media_files, caption, outcome, st, tmp, ds) ==
    LET directory_name == extract_title(caption)
        start == [success |-> TRUE, directory |-> directory_name,
                  store |-> st, temp |-> tmp, dirs |-> ds,
                  placed |-> {}, names |-> <<>>, reported |-> <<>>, failed |-> 0]
    IN  IF outcome < 0
        THEN Raised(start, media_files, 0)
        ELSE RunMoves(PlannedMoves(media_files, start.directory), outcome, media_files,
                      [start EXCEPT !.dirs = @ \cup {start.directory}])

\* total_files, photo_count, video_count, other_count of the flush.
photo_count(downloaded_files) == Len(SelectSeq(downloaded_files, IsPhoto))
video_count(downloaded_files) == Len(SelectSeq(downloaded_files, IsVideo))

\* Variant: the total leaves out the files that are neither photo nor video.
total_files_PhotosAndVideos(downloaded_files) ==
    photo_count(downloaded_files) + video_count(downloaded_files)

total_files(downloaded_files) == Len(downloaded_files)
other_count(downloaded_files) ==
    total_files(downloaded_files) - photo_count(downloaded_files) - video_count(downloaded_files)


\* ------------------------------------------------------------------ state

VARIABLES
    media_groups,   \* self.media_groups: grouped_id -> list of messages (keys present only)
    group_tasks,    \* self.group_tasks: grouped_id -> index of its task in tasks
    tasks,          \* every task created by asyncio.create_task, in creation order
    temp,           \* names of the files in the temp directory
    store,          \* <<directory, file name>> -> id of the message whose bytes are there
    dirs,           \* album directories that exist under the videos directory
    next_id,        \* id of the next message to be delivered
    singles,        \* every call of _handle_telegram_media, in call order
    now,            \* datetime.now(), in seconds
    arg,            \* argument of the classifier or title function being applied
    ret             \* what it returned, NoResult before the call

vars == <<media_groups, group_tasks, tasks, temp, store, dirs, next_id, singles, now, arg, ret>>

NoResult == [kind |-> "none"]

\* The empty dict.
EmptyMap == [k \in {} |-> 0]

Ids(messages) == {messages[k].id : k \in 1..Len(messages)}

\* A task of _process_media_group_with_delay(group_id).  pc is the await it
\* is suspended at: "sleep" (asyncio.sleep), "download" (download_media of
\* message i), "reply" (the summary reply), "err_reply" (the reply of the
\* outer except branch), or "done".  The fields after messages record what
\* the task has done and are read by no action.
NewTask(g, first) ==
    [group_id         |-> g,
     pc               |-> "sleep",
     remaining        |-> media_group_delay,
     i                |-> 0,
     downloaded_files |-> <<>>,
     messages         |-> <<>>,
     first            |-> first,
     age              |-> 0,
     len_at_wake      |-> 0,
     attempted        |-> {},
     dl_failed        |-> {},
     placed           |-> {},
     placed_names     |-> <<>>,
     reported         |-> <<>>,
     directory        |-> <<>>,
     failed_member    |-> 0,
     dropped          |-> {},
     outcome          |-> "none",
     notes            |-> 0,
     summary_total    |-> 0]

\* The coroutine has returned: its locals are gone.  What is kept is what it
\* reported (outcome, notes) and the messages it removed from the mapping
\* without ever starting their download (dropped).
Finished(task, outcome, dropped) ==
    [NewTask(task.group_id, task.first) EXCEPT
        !.pc = "done", !.remaining = 0, !.age = task.age,
        !.outcome = outcome, !.notes = task.notes, !.dropped = dropped]

Init ==
    /\ media_groups = EmptyMap
    /\ group_tasks = EmptyMap
    /\ tasks = <<>>
    /\ temp = {}
    /\ store = EmptyMap
    /\ dirs = {}
    /\ next_id = 1
    /\ singles = <<>>
    /\ now = 0
    /\ arg = NoResult
    /\ ret = NoResult

\* Variant: the message is not stored.
BufferAppend_Drop(mg, g, message) == mg

\* Variant: the message is put at the front of the list.
BufferAppend_Prepend(mg, g, message) ==
    IF g \in DOMAIN mg
    THEN [mg EXCEPT ![g] = <<message>> \o @]
    ELSE (g :> <<message>>) @@ mg

\* self.media_groups[group_id].append(message) on a defaultdict(list).
BufferAppend(mg, g, message) ==
    IF g \in DOMAIN mg
    THEN [mg EXCEPT ![g] = Append(@, message)]
    ELSE (g :> <<message>>) @@ mg

\* Variant: every arrival starts a task.
NeedsTask_Always(gt, g) == TRUE

\* if group_id not in self.group_tasks
NeedsTask(gt, g) == g \notin DOMAIN gt

\* Variant: the whole mapping is emptied.
Discard_All(d, g) == [k \in {} |-> 0]

\* Variant: the entry is left in place.
Discard_Keep(d, g) == d

\* Variant: the entry is emptied instead of deleted.
Discard_Clear(d, g) == [k \in DOMAIN d |-> IF k = g THEN <<>> ELSE d[k]]

\* if group_id in d: del d[group_id]
Discard(d, g) == [k \in (DOMAIN d) \ {g} |-> d[k]]

\* _handle_media_group(event), up to its first await (the reply that
\* acknowledges the message changes none of the state).
HandleMediaGroup(g, media, text) ==
    LET message == [id |-> next_id, group_id |-> g, media |-> media, text |-> text]
        tid     == Len(tasks) + 1
    IN  /\ next_id <= MaxMsgs
        /\ next_id' = next_id + 1
        /\ media_groups' = BufferAppend(media_groups, g, message)
        /\ IF NeedsTask(group_tasks, g)
           THEN /\ group_tasks' = (g :> tid) @@ group_tasks
                /\ tasks' = Append(tasks, NewTask(g, next_id))
           ELSE UNCHANGED <<group_tasks, tasks>>
        /\ UNCHANGED <<temp, store, dirs>>
        /\ UNCHANGED <<singles, now, arg, ret>>

\* One tick of the clock: the running asyncio.sleep calls count down.  A
\* timer that has run out fires before the clock moves on.
Tick ==
    /\ \E t \in 1..Len(tasks) : tasks[t].pc = "sleep"
    /\ \A t \in 1..Len(tasks) : tasks[t].pc = "sleep" => tasks[t].remaining > 0
    /\ tasks' = [t \in 1..Len(tasks) |->
                    IF tasks[t].pc = "sleep"
                    THEN [tasks[t] EXCEPT !.remaining = @ - 1, !.age = @ + 1]
                    ELSE tasks[t]]
    /\ UNCHANGED <<media_groups, group_tasks, temp, store, dirs, next_id>>
    /\ UNCHANGED <<singles, now, arg, ret>>

\* asyncio.sleep returns: the task reads its buffer and its caption and
\* suspends in the first download.  raises: reading messages[0].text raises,
\* which takes the task to the outer except branch, where it removes both
\* entries and suspends in the error reply.
Wake(t, raises) ==
    LET g        == tasks[t].group_id
        messages == IF g \in DOMAIN media_groups THEN media_groups[g] ELSE <<>>
    IN  /\ tasks[t].pc = "sleep"
        /\ tasks[t].remaining = 0
        /\ IF messages = <<>>
           THEN /\ tasks' = [tasks EXCEPT ![t] = Finished(@, "empty", {})]
                /\ UNCHANGED <<media_groups, group_tasks>>
           ELSE IF raises
           THEN /\ tasks' = [tasks EXCEPT ![t].pc = "err_reply",
                                          ![t].messages = messages,
                                          ![t].len_at_wake = Len(messages),
                                          ![t].dropped = Ids(messages),
                                          ![t].outcome = "error",
                                          ![t].notes = @ + 1]
                /\ media_groups' = Discard(media_groups, g)
                /\ group_tasks' = Discard(group_tasks, g)
           ELSE /\ tasks' = [tasks EXCEPT ![t].pc = "download",
                                          ![t].i = 1,
                                          ![t].len_at_wake = Len(messages),
                                          ![t].attempted = {messages[1].id}]
                /\ UNCHANGED <<media_groups, group_tasks>>
        /\ UNCHANGED <<temp, store, dirs, next_id>>
        /\ UNCHANGED <<singles, now, arg, ret>>

\* Variant: a failed download throws away what was downloaded before it.
DownloadedAfter_Reset(downloaded_files, entry, ok) ==
    IF ok THEN Append(downloaded_files, entry) ELSE <<>>

\* downloaded_files after the download of one message returned (ok) or
\* raised (not ok).
DownloadedAfter(downloaded_files, entry, ok) ==
    IF ok THEN Append(downloaded_files, entry) ELSE downloaded_files

\* download_media of message i returns or raises.  If the list has a next
\* message the task suspends in its download.  Otherwise the loop is over:
\* with nothing downloaded the task removes both entries and ends; else it
\* runs process_media_group (which never suspends) and suspends in the reply
\* that carries the summary.
DownloadDone(t, ok, outcome) ==
    LET g        == tasks[t].group_id
        messages == media_groups[g]
        i        == tasks[t].i
        message  == messages[i]
        path     == UniqueTemp(DownloadName(message.media), temp)
        entry    == [temp_path         |-> path,
                     original_filename |-> path,
                     type              |-> media_type(message.media),
                     message_id        |-> message.id,
                     index             |-> i - 1]
        files    == DownloadedAfter(tasks[t].downloaded_files, entry, ok)
        tmp      == IF ok THEN temp \cup {path} ELSE temp
        failed   == IF ok THEN tasks[t].dl_failed ELSE tasks[t].dl_failed \cup {message.id}
    IN  /\ tasks[t].pc = "download"
        /\ IF i < Len(messages)
           THEN /\ outcome = 0
                /\ tasks' = [tasks EXCEPT ![t].i = i + 1,
                                          ![t].downloaded_files = files,
                                          ![t].dl_failed = failed,
                                          ![t].attempted = @ \cup {messages[i + 1].id}]
                /\ temp' = tmp
                /\ UNCHANGED <<media_groups, group_tasks, store, dirs>>
           ELSE IF files = <<>>
           THEN /\ outcome = 0
                /\ tasks' = [tasks EXCEPT ![t] = Finished(@, "silent", {})]
                /\ media_groups' = Discard(media_groups, g)
                /\ group_tasks' = Discard(group_tasks, g)
                /\ temp' = tmp
                /\ UNCHANGED <<store, dirs>>
           ELSE /\ outcome \in -1..Len(files)
                /\ \E r \in {process_media_group(files, caption_of(messages), outcome,
                                                 store, tmp, dirs)} :
                       /\ tasks' = [tasks EXCEPT
                              ![t].pc = "reply",
                              ![t].i = i + 1,
                              ![t].downloaded_files = files,
                              ![t].dl_failed = failed,
                              ![t].placed = r.placed,
                              ![t].placed_names = r.names,
                              ![t].reported = r.reported,
                              ![t].directory = r.directory,
                              ![t].failed_member = r.failed,
                              ![t].outcome = IF r.success THEN "success" ELSE "failure",
                              ![t].notes = @ + 1,
                              ![t].summary_total = IF r.success THEN total_files(files) ELSE 0]
                       /\ temp' = r.temp
                       /\ store' = r.store
                       /\ dirs' = r.dirs
                /\ UNCHANGED <<media_groups, group_tasks>>
        /\ UNCHANGED next_id
        /\ UNCHANGED <<singles, now, arg, ret>>

\* The summary reply returns or raises (a raise is logged and nothing else):
\* the task removes both entries and ends.
ReplyDone(t) ==
    LET g == tasks[t].group_id
    IN  /\ tasks[t].pc = "reply"
        /\ tasks' = [tasks EXCEPT ![t] =
               Finished(@, @.outcome,
                        IF g \in DOMAIN media_groups
                        THEN Ids(media_groups[g]) \ @.attempted ELSE {})]
        /\ media_groups' = Discard(media_groups, g)
        /\ group_tasks' = Discard(group_tasks, g)
        /\ UNCHANGED <<temp, store, dirs, next_id>>
        /\ UNCHANGED <<singles, now, arg, ret>>

\* The error reply of the outer except branch returns or raises: the task ends.
ErrReplyDone(t) ==
    /\ tasks[t].pc = "err_reply"
    /\ tasks' = [tasks EXCEPT ![t] = Finished(@, @.outcome, @.dropped)]
    /\ UNCHANGED <<media_groups, group_tasks, temp, store, dirs, next_id>>
    /\ UNCHANGED <<singles, now, arg, ret>>

\* grouped_id values are opaque tokens: a message carries either an id seen
\* before or the next unused one.  Only the caption of the first message of
\* a buffer is ever read, so the later ones are delivered without caption.
FreshOrKnown ==
    {g \in GroupIds : \A h \in 1..(g - 1) : \E t \in 1..Len(tasks) : tasks[t].group_id = h}

Next ==
    \/ \E g \in FreshOrKnown, media \in Media, text \in Captions :
           /\ g \in DOMAIN media_groups => text = <<>>
           /\ HandleMediaGroup(g, media, text)
    \/ Tick
    \/ \E t \in 1..Len(tasks), raises \in BOOLEAN : Wake(t, raises)
    \/ \E t \in 1..Len(tasks), ok \in BOOLEAN, outcome \in -1..MaxMsgs : DownloadDone(t, ok, outcome)
    \/ \E t \in 1..Len(tasks) : ReplyDone(t)
    \/ \E t \in 1..Len(tasks) : ErrReplyDone(t)

Spec == Init /\ [][Next]_vars

TypeOK ==
    /\ DOMAIN media_groups \subseteq GroupIds
    /\ DOMAIN group_tasks \subseteq GroupIds
    /\ next_id \in 1..(MaxMsgs + 1)
    /\ \A t \in 1..Len(tasks) : tasks[t].pc \in {"sleep", "download", "reply", "err_reply", "done"}

\* ------------------------------------------- classifiers and title, applied

\* Values of document.mime_type, as token sequences; <<>> is the empty string.
MimeTypes ==
    { <<>>, <<"video", "/", "mp4">>, <<"image", "/", "jpeg">>, <<"audio", "/", "mpeg">>,
      <<"application", "/", "pdf">>, <<"video">> }

\* message.media: a photo, a document with its mime_type, or a media object
\* that is neither (a contact, a location).
Attachments ==
    {[kind |-> "photo", mime_type |-> <<>>], [kind |-> "other", mime_type |-> <<>>]}
        \cup {[kind |-> "document", mime_type |-> m] : m \in MimeTypes}

\* str.startswith
StartsWith(str, prefix) ==
    Len(str) >= Len(prefix) /\ SubSeq(str, 1, Len(prefix)) = prefix

\* The classifier of the single-message path: (type, target directory).
get_media_type_and_dir(media) ==
    IF media.kind = "document"
    THEN IF media.mime_type # <<>> /\ StartsWith(media.mime_type, <<"video", "/">>)
         THEN [type |-> "video", dir |-> <<"videos">>]
         ELSE IF media.mime_type # <<>> /\ StartsWith(media.mime_type, <<"audio", "/">>)
         THEN [type |-> "audio", dir |-> <<"audios">>]
         ELSE [type |-> "other", dir |-> <<"others">>]
    ELSE IF media.kind = "photo"
    THEN [type |-> "photo", dir |-> <<"photos">>]
    ELSE [type |-> "other", dir |-> <<"others">>]

\* The tests of the classification inside the download loop: which of the
\* three cases of media_type a media object falls in.
MediaClass(media) ==
    IF media.kind = "photo" THEN "Photo"
    ELSE IF media.kind = "document" /\ StartsWith(media.mime_type, <<"video", "/">>)
    THEN "DocVideo"
    ELSE "DocOther"

flush_media_type(media) == media_type(MediaClass(media))

\* Captions with a bracketed tag: pre LB tag RB text tail.
TaggedCaptions ==
    [kind : {"caption"}, tagged : {TRUE},
     pre  : { <<>>, <<"e">> },
     tag  : { <<>>, <<"s">>, <<"s", " ", "x">> },
     text : { <<>>, <<" ">>, <<"m">>, <<" ", "m", " ">>, <<"m", "#", "t">>, <<"#", "t">>,
              <<"m", ":", "n">>, <<"m", RB>>, <<".", "m">> },
     tail : { <<>>, <<NL, "d">> }]

\* Captions without a tag: pre text tail.
PlainCaptions ==
    [kind : {"caption"}, tagged : {FALSE},
     pre  : { <<>> },
     tag  : { <<>> },
     text : { <<>>, <<"m">>, <<" ", "m", "#", "t">>, <<"#", "t">>, <<LB, "m">> },
     tail : { <<>>, <<NL, "d">> }]

\* The character c, n times.
Repeated(c, n) == [k \in 1..n |-> c]

\* Captions around the length at which _sanitize_filename cuts: one line
\* of half the limit plus one, of the limit plus one, and one whose
\* character at the limit is a space, without and with a tag.
LongCaptions ==
    [kind : {"caption"}, tagged : {FALSE, TRUE},
     pre  : { <<>> },
     tag  : { <<>> },
     text : { Repeated("m", FilenameLimit \div 2 + 1),
              Repeated("m", FilenameLimit + 1),
              Repeated("m", FilenameLimit - 1) \o <<" ", "m">> },
     tail : { <<>>, <<NL, "d">> }]

MessageText(c) ==
    IF c.tagged
    THEN c.pre \o <<LB>> \o c.tag \o <<RB>> \o c.text \o c.tail
    ELSE c.pre \o c.text \o c.tail

\* Media of the messages of one album handed to the flush as a whole.
BatchMedia == {"Photo", "DocVideo", "DocOther", "DocFanart", "DocVideoJpg"}

\* Caption of the first message of such an album: none, a plain word, and
\* texts made of dots, spaces and path separators.
BatchCaptions ==
    { <<>>, <<"fanart">>, <<".", ".", "/", "x">>, <<".", ".">>, <<" ">>, <<"\\", "/">> }

\* Text of the messages after the first.
LaterTexts == { <<>>, <<"z">> }

\* Albums of 1..MaxBatch messages; lost is the index of the message whose
\* download raises, 0 when every download returns.
Batches ==
    UNION { { [kind     |-> "batch",
               messages |-> [i \in 1..n |->
                                [id    |-> i,
                                 media |-> ms[i],
                                 text  |-> IF i = 1 THEN c ELSE later]],
               lost     |-> lost] :
                 ms \in [1..n -> BatchMedia], c \in BatchCaptions,
                 later \in LaterTexts, lost \in 0..n } : n \in 1..MaxBatch }

\* The download loop of _process_media_group_with_delay run to its end.
RECURSIVE DownloadAll(_, _, _, _, _)
DownloadAll(messages, lost, i, tmp, downloaded_files) ==
    IF i > Len(messages)
    THEN [files |-> downloaded_files, temp |-> tmp]
    ELSE LET path  == UniqueTemp(DownloadName(messages[i].media), tmp)
             entry == [temp_path         |-> path,
                       original_filename |-> path,
                       type              |-> media_type(messages[i].media),
                       message_id        |-> messages[i].id,
                       index             |-> i - 1]
         IN  DownloadAll(messages, lost, i + 1,
                         IF i = lost THEN tmp ELSE tmp \cup {path},
                         DownloadedAfter(downloaded_files, entry, i # lost))

PureInit ==
    /\ media_groups = EmptyMap
    /\ group_tasks = EmptyMap
    /\ tasks = <<>>
    /\ temp = {}
    /\ store = EmptyMap
    /\ dirs = {}
    /\ next_id = 1
    /\ singles = <<>>
    /\ now = 0
    /\ arg \in {[kind |-> "attachment", media |-> a] : a \in Attachments}
                 \cup TaggedCaptions \cup PlainCaptions \cup LongCaptions \cup Batches
    /\ ret = NoResult

\* Both classifiers applied to one media object.
Classify ==
    /\ arg.kind = "attachment"
    /\ ret = NoResult
    /\ ret' = [kind   |-> "class",
               single |-> get_media_type_and_dir(arg.media),
               flush  |-> flush_media_type(arg.media)]
    /\ UNCHANGED <<media_groups, group_tasks, tasks, temp, store, dirs, next_id, singles, now, arg>>

\* _extract_title applied to one caption, and the name the flush gives the
\* only video of an album with that title.
ExtractTitle ==
    /\ arg.kind = "caption"
    /\ ret = NoResult
    /\ ret' = LET title == extract_title(MessageText(arg))
              IN  [kind  |-> "title",
                   title |-> title,
                   video |-> video_filename(title, 1, 0, ".mp4")]
    /\ UNCHANGED <<media_groups, group_tasks, tasks, temp, store, dirs, next_id, singles, now, arg>>

\* The download loop and process_media_group applied to one album on an
\* empty store; nothing is flushed when no download returned.
Flush(outcome) ==
    /\ arg.kind = "batch"
    /\ ret = NoResult
    /\ \E d \in {DownloadAll(arg.messages, arg.lost, 1, temp, <<>>)} :
          IF d.files = <<>>
          THEN /\ ret' = [kind |-> "skipped"]
               /\ UNCHANGED <<temp, store, dirs>>
          ELSE \E r \in {process_media_group(d.files, caption_of(arg.messages),
                                             outcome, store, d.temp, dirs)} :
                   /\ ret' = [kind      |-> "flush",
                              files     |-> d.files,
                              success   |-> r.success,
                              directory |-> r.directory,
                              placed    |-> r.placed,
                              names     |-> r.names]
                   /\ temp' = r.temp
                   /\ store' = r.store
                   /\ dirs' = r.dirs
    /\ UNCHANGED <<media_groups, group_tasks, tasks, next_id, singles, now, arg>>

PureNext ==
    \/ Classify
    \/ ExtractTitle
    \/ \E outcome \in -1..MaxBatch : Flush(outcome)

PureSpec == PureInit /\ [][PureNext]_vars

\* ------------------------------------------------- the single-message path

\* Messages that reach _handle_telegram_media: a media object, the file_name
\* attribute of a document (<<>> when it has none) and the message text.
\* "han" stands for one character of the range U+4E00..U+9FFF.  Documents
\* with a title attribute (audio) are left out.
SingleMessages ==
    {[media |-> m, file_name |-> f, text |-> x] :
        m \in {[kind |-> "photo", mime_type |-> <<>>],
                [kind |-> "document", mime_type |-> <<"video", "/", "mp4">>],
                [kind |-> "document", mime_type |-> <<"application", "/", "pdf">>]},
        f \in {<<>>, <<"clip", ".mp4">>},
        x \in {<<>>, <<"han">>}}

\* datetime.now().strftime('%Y%m%d_%H%M%S')
Timestamp(t) == <<"T", ToString(t)>>

\* "." + mime_type.split('/')[-1]
MimeExt(mime_type) == "." \o mime_type[Len(mime_type)]

\* re.search("[\u4e00-\u9fff]+", str)
HasCJK(str) == \E k \in 1..Len(str) : str[k] = "han"

get_filename(media, file_name, message_text, t) ==
    IF media.kind = "document" /\ file_name # <<>> THEN file_name
    ELSE IF media.kind = "document" THEN Timestamp(t) \o <<MimeExt(media.mime_type)>>
    ELSE IF media.kind = "photo" THEN <<"photo_">> \o Timestamp(t) \o <<".jpg">>
    ELSE extract_title(message_text)

\* The file name process_media settles on before the download: the
\* extracted title replaces a name without CJK characters when the message
\* text has some.
chosen_filename(media, file_name, message_text, t) ==
    LET filename == get_filename(media, file_name, message_text, t)
    IN  IF /\ ~HasCJK(filename) \/ \E k \in 1..(Len(filename) - 1) :
                                       SubSeq(filename, k, k + 1) = Timestamp(t)
           /\ HasCJK(message_text)
           /\ extract_title(message_text) # <<>>
        THEN extract_title(message_text)
        ELSE filename

\* str.replace(ext + ext, ext) on a name whose tokens are its stem parts
\* and extensions.
RECURSIVE CollapseExt(_, _)
CollapseExt(name, ext) ==
    IF Len(name) < 2 THEN name
    ELSE IF name[1] = ext /\ name[2] = ext
         THEN <<ext>> \o CollapseExt(SubSeq(name, 3, Len(name)), ext)
         ELSE <<name[1]>> \o CollapseExt(Tail(name), ext)

\* The name under target_dir that process_media moves the download to.
target_name(filename, ext, target_dir, st, t) ==
    LET first == filename \o <<ext>>
        name  == IF <<target_dir, first>> \in DOMAIN st
                 THEN filename \o <<"_">> \o Timestamp(t) \o <<ext>>
                 ELSE first
    IN  CollapseExt(name, ext)

\* move_file(src, dst) of utils.file_utils: creates the missing
\* directories of dst and moves src there, or fails and leaves src alone.
move_file(src, target_dir, name, id, moves, st, tmp, ds) ==
    IF moves /\ src \in tmp
    THEN [success |-> TRUE, store |-> (<<target_dir, name>> :> id) @@ st,
          temp |-> tmp \ {src}, dirs |-> ds \cup {target_dir}]
    ELSE [success |-> FALSE, store |-> st, temp |-> tmp, dirs |-> ds]

\* A call of _handle_telegram_media.  pc is the await it is suspended at:
\* "status" (the reply "download started"), "download" (download_media),
\* "ok_reply" and "fail_reply" (the reply with the result), or "done".
\* download and replies record what happened and are read by no action.
NewSingle(msg, id) ==
    [id |-> id, media |-> msg.media, file_name |-> msg.file_name, text |-> msg.text,
     pc |-> "status", type |-> "none", target_dir |-> <<>>, filename |-> <<>>,
     download |-> "none", replies |-> <<>>]

\* handle_message calls _handle_telegram_media for a message with media and
\* without grouped_id; the call suspends in its first reply.
HandleTelegramMedia(msg) ==
    /\ Len(singles) < MaxSingles
    /\ singles' = Append(singles, NewSingle(msg, Len(singles) + 1))
    /\ UNCHANGED <<media_groups, group_tasks, tasks, temp, store, dirs, next_id, now, arg, ret>>

\* The first reply returns; process_media classifies the media, chooses
\* the file name and suspends in download_media.
StatusReplied(s) ==
    /\ singles[s].pc = "status"
    /\ LET c == get_media_type_and_dir(singles[s].media)
       IN  singles' = [singles EXCEPT
               ![s].pc         = "download",
               ![s].replies    = Append(@, "started"),
               ![s].type       = c.type,
               ![s].target_dir = c.dir,
               ![s].filename   = chosen_filename(singles[s].media, singles[s].file_name,
                                                 singles[s].text, now)]
    /\ UNCHANGED <<media_groups, group_tasks, tasks, temp, store, dirs, next_id, now, arg, ret>>

\* Variant: only a download that raises counts as failed.
DownloadFailed_OnlyRaises(result) == result = "raises"

\* download_media raised, or returned nothing (if not downloaded_file).
DownloadFailed(result) == result \in {"raises", "nothing"}

\* download_media ends: result is "ok", "nothing" (it returned None) or
\* "raises".  After a download the file is moved at once, there is no await
\* in between; moves tells whether the file system lets the move through.
SingleDownloadDone(s, result, moves) ==
    /\ singles[s].pc = "download"
    /\ IF DownloadFailed(result)
       THEN /\ singles' = [singles EXCEPT ![s].pc = "fail_reply", ![s].download = result]
            /\ UNCHANGED <<temp, store, dirs>>
       ELSE LET downloaded_file == UniqueTemp(DownloadName(MediaClass(singles[s].media)), temp)
                name == target_name(singles[s].filename, Ext(downloaded_file),
                                    singles[s].target_dir, store, now)
                r    == move_file(downloaded_file, singles[s].target_dir, name, singles[s].id,
                                  moves, store, temp \cup {downloaded_file}, dirs)
            IN  /\ singles' = [singles EXCEPT
                       ![s].pc       = IF r.success THEN "ok_reply" ELSE "fail_reply",
                       ![s].download = result]
                /\ temp' = r.temp
                /\ store' = r.store
                /\ dirs' = r.dirs
    /\ UNCHANGED <<media_groups, group_tasks, tasks, next_id, now, arg, ret>>

\* The reply with the result returns and the call ends.
SingleReplyDone(s) ==
    /\ singles[s].pc \in {"ok_reply", "fail_reply"}
    /\ singles' = [singles EXCEPT
           ![s].pc      = "done",
           ![s].replies = Append(@, IF singles[s].pc = "ok_reply" THEN "success" ELSE "failure")]
    /\ UNCHANGED <<media_groups, group_tasks, tasks, temp, store, dirs, next_id, now, arg, ret>>

\* The clock reaches the next second.
SecondPasses ==
    /\ now < MaxNow
    /\ now' = now + 1
    /\ UNCHANGED <<media_groups, group_tasks, tasks, temp, store, dirs, next_id, singles, arg, ret>>

SingleNext ==
    \/ \E msg \in SingleMessages : HandleTelegramMedia(msg)
    \/ \E s \in 1..Len(singles) : StatusReplied(s)
    \/ \E s \in 1..Len(singles), result \in {"ok", "nothing", "raises"}, moves \in BOOLEAN :
           SingleDownloadDone(s, result, moves)
    \/ \E s \in 1..Len(singles) : SingleReplyDone(s)
    \/ SecondPasses

SingleSpec == Init /\ [][SingleNext]_vars

\* ------------------------------------------------------------------ claims

TaskIds == 1..Len(tasks)
Flushing(t) == tasks[t].pc \in {"download", "reply"}
Buffer(t) == media_groups[tasks[t].group_id]
Downloaded(t) ==
    {tasks[t].downloaded_files[k].message_id : k \in 1..Len(tasks[t].downloaded_files)}

\* A message for g is delivered in this step while the task of g is
\* draining its buffer.
LateArrival(g) ==
    /\ g \in DOMAIN group_tasks
    /\ Flushing(group_tasks[g])
    /\ next_id' = next_id + 1
    /\ g \in DOMAIN media_groups'
    /\ media_groups'[g][Len(media_groups'[g])].id = next_id

\* C1: an attachment that arrives for a group whose task is already draining
\* its buffer is not added to that batch; it opens a new buffer of its own
\* and a new debounce task.
C1_LateArrivalStartsNewGroup ==
    [][\A g \in GroupIds :
          LateArrival(g) => /\ Len(tasks') = Len(tasks) + 1
                            /\ Len(media_groups'[g]) = 1]_vars

\* C2: a flush that ends without an unexpected error has started the
\* download of every attachment it removes from the mapping; none is removed
\* unprocessed.
C2_NoAttachmentDropped ==
    \A t \in TaskIds :
        tasks[t].pc = "done" /\ tasks[t].outcome # "error" => tasks[t].dropped = {}

\* C3: a task that has ended has sent exactly one summary notification,
\* whatever its outcome.
C3_OneSummaryPerOutcome ==
    \A t \in TaskIds : tasks[t].pc = "done" => tasks[t].notes = 1

\* A success summary has been sent for a batch that got no attachment after
\* its timer fired.
SummaryInWindow(t) ==
    /\ tasks[t].pc = "reply"
    /\ tasks[t].outcome = "success"
    /\ Len(Buffer(t)) = tasks[t].len_at_wake

\* C4 as stated: when every attachment arrived inside the debounce window,
\* the success summary counts as many files as were buffered.
C4_SummaryCountsAllBuffered ==
    \A t \in TaskIds :
        SummaryInWindow(t) => tasks[t].summary_total = tasks[t].len_at_wake

\* C4 as amended: when every attachment arrived inside the debounce window,
\* one task has taken every buffered attachment, it has sent one summary, and
\* the total of that summary is the number of buffered attachments whose
\* download succeeded.
C4_SummaryCountsDownloaded ==
    \A t \in TaskIds :
        SummaryInWindow(t) =>
            /\ group_tasks[tasks[t].group_id] = t
            /\ tasks[t].attempted = Ids(Buffer(t))
            /\ tasks[t].notes = 1
            /\ tasks[t].summary_total =
                   tasks[t].len_at_wake - Cardinality(tasks[t].dl_failed)

C4_Witness ==
    \E t \in TaskIds :
        /\ SummaryInWindow(t)
        /\ tasks[t].len_at_wake = 3
        /\ tasks[t].summary_total = 3

\* C5: no group_id has two tasks that have not ended.
C5_OneLiveTaskPerGroup ==
    \A g \in GroupIds :
        Cardinality({t \in TaskIds : tasks[t].group_id = g /\ tasks[t].pc # "done"}) <= 1

\* C6: every key of media_groups maps to a list with at least one message.
C6_NoEmptyBuffer ==
    \A g \in DOMAIN media_groups : Len(media_groups[g]) >= 1

C6_Witness ==
    /\ \E t \in TaskIds : tasks[t].pc = "done"
    /\ \E g \in DOMAIN media_groups : Flushing(group_tasks[g])

\* C7: when the move of one member fails, every other downloaded member of
\* the batch has still been placed.
C7_PlacementFailureIsolated ==
    \A t \in TaskIds :
        tasks[t].pc = "reply" /\ tasks[t].failed_member # 0 =>
            Downloaded(t) \ {tasks[t].failed_member} \subseteq tasks[t].placed

\* C8: whichever downloads of a batch fail, the list handed to placement is
\* exactly the members whose download succeeded, each with the type of its
\* media; and a flush that places without error has placed and counted every
\* one of them.
C8_DownloadFailureIsolated ==
    \A t \in TaskIds :
        /\ tasks[t].pc = "download" =>
               Downloaded(t) =
                   (tasks[t].attempted \ {Buffer(t)[tasks[t].i].id}) \ tasks[t].dl_failed
        /\ Flushing(t) =>
               \A k \in 1..Len(tasks[t].downloaded_files) :
                   LET f == tasks[t].downloaded_files[k]
                   IN  f.type = media_type(Buffer(t)[f.index + 1].media)
        /\ tasks[t].pc = "reply" /\ tasks[t].outcome = "success" =>
               /\ Downloaded(t) = tasks[t].attempted \ tasks[t].dl_failed
               /\ tasks[t].placed = Downloaded(t)
               /\ tasks[t].summary_total = Cardinality(Downloaded(t))

C8_Witness ==
    \E t \in TaskIds :
        /\ tasks[t].pc = "reply"
        /\ tasks[t].outcome = "success"
        /\ tasks[t].dl_failed # {}
        /\ Cardinality(tasks[t].placed) >= 2

\* C9: no step writes to a path of the store that is already occupied, the
\* primary image fanart.jpg excepted.
C9_NeverOverwrites ==
    [][\A p \in DOMAIN store :
          p[2] # photo_filename(0) => p \in DOMAIN store' /\ store'[p] = store[p]]_vars

\* C10: the task that serves a group is the one its first attachment
\* started, later attachments leave its countdown alone, and it starts to
\* flush exactly media_group_delay after that first attachment.
C10_OneShotTimer ==
    \A t \in TaskIds :
        /\ tasks[t].pc = "sleep" =>
               /\ tasks[t].age + tasks[t].remaining = media_group_delay
               /\ tasks[t].group_id \in DOMAIN group_tasks
               /\ group_tasks[tasks[t].group_id] = t
               /\ Buffer(t)[1].id = tasks[t].first
        /\ tasks[t].pc # "sleep" => tasks[t].age = media_group_delay

C10_Witness ==
    \E t \in TaskIds :
        /\ tasks[t].pc = "download"
        /\ tasks[t].len_at_wake >= 2
        /\ tasks[t].age = media_group_delay


\* Position of the message with this id in the buffer of task t.
Pos(t, id) == CHOOSE k \in 1..Len(Buffer(t)) : Buffer(t)[k].id = id
TypeOfId(t, id) == media_type(Buffer(t)[Pos(t, id)].media)
Rank(type) == IF type = "photo" THEN 1 ELSE IF type = "video" THEN 2 ELSE 3
\* Name under which task t placed the message with this id.
PlacedName(t, id) ==
    LET k == CHOOSE k \in 1..Len(tasks[t].placed_names) : tasks[t].placed_names[k].id = id
    IN  tasks[t].placed_names[k].name

\* C11: once the task of a group has ended, the group's entries are gone
\* from both mappings: an entry found under its group_id belongs to a task
\* started later, which is still running, and the buffer found there starts
\* with the attachment that started that later task.
C11_EntriesGoneAtCompletion ==
    \A t \in TaskIds :
        tasks[t].pc = "done" =>
            LET g == tasks[t].group_id
            IN  /\ g \in DOMAIN group_tasks =>
                       /\ group_tasks[g] > t
                       /\ tasks[group_tasks[g]].pc # "done"
                /\ g \in DOMAIN media_groups =>
                       /\ g \in DOMAIN group_tasks
                       /\ media_groups[g][1].id = tasks[group_tasks[g]].first

C11_Witness ==
    \E t \in TaskIds, u \in TaskIds :
        /\ tasks[t].pc = "done"
        /\ tasks[t].outcome \in {"success", "failure"}
        /\ u > t
        /\ tasks[u].group_id = tasks[t].group_id
        /\ tasks[u].pc = "sleep"

\* C12 as stated: the members of a batch are placed in the order in which
\* they were buffered.
C12_PlacedInBufferOrder ==
    \A t \in TaskIds :
        tasks[t].pc = "reply" =>
            \A k, l \in 1..Len(tasks[t].placed_names) :
                k < l => Pos(t, tasks[t].placed_names[k].id) < Pos(t, tasks[t].placed_names[l].id)

\* C12 as amended: a buffer holds its messages in arrival order, the
\* downloads follow the buffer order, and the placements run photos first,
\* then videos, then other files, in buffer order within each of the three.
C12_OrderWithinCategory ==
    /\ \A g \in DOMAIN media_groups :
           \A k, l \in 1..Len(media_groups[g]) :
               k < l => media_groups[g][k].id < media_groups[g][l].id
    /\ \A t \in TaskIds :
           /\ Flushing(t) =>
                  LET df == tasks[t].downloaded_files
                  IN  /\ \A k \in 1..Len(df) : df[k].message_id = Buffer(t)[df[k].index + 1].id
                      /\ \A k, l \in 1..Len(df) : k < l => df[k].index < df[l].index
           /\ tasks[t].pc = "reply" =>
                  LET pn == tasks[t].placed_names
                  IN  \A k, l \in 1..Len(pn) :
                          k < l =>
                              \/ Rank(TypeOfId(t, pn[k].id)) < Rank(TypeOfId(t, pn[l].id))
                              \/ /\ TypeOfId(t, pn[k].id) = TypeOfId(t, pn[l].id)
                                 /\ Pos(t, pn[k].id) < Pos(t, pn[l].id)

C12_Witness ==
    \E t \in TaskIds :
        /\ tasks[t].pc = "reply"
        /\ Len(tasks[t].placed_names) = 3
        /\ Pos(t, tasks[t].placed_names[1].id) = 3
        /\ TypeOfId(t, tasks[t].placed_names[2].id) = TypeOfId(t, tasks[t].placed_names[3].id)

\* C13: no step replaces a primary image fanart.jpg that a directory
\* already holds.
C13_PrimaryImageNotReclaimed ==
    [][\A p \in DOMAIN store :
          p[2] = <<"fanart", ".jpg">> => p \in DOMAIN store' /\ store'[p] = store[p]]_vars

\* Task t has placed a batch of exactly three photos without error.
ThreePhotoAlbum(t) ==
    /\ tasks[t].pc = "reply"
    /\ tasks[t].outcome = "success"
    /\ Len(tasks[t].downloaded_files) = 3
    /\ \A k \in 1..3 : tasks[t].downloaded_files[k].type = "photo"

\* C14 as stated: of an album of three photos the first is placed as
\* fanart.jpg and the second and third as fanart1.jpg and fanart2.jpg or
\* under their original names.
C14_AlbumNamesFanartN ==
    \A t \in TaskIds :
        ThreePhotoAlbum(t) =>
            LET df == tasks[t].downloaded_files
            IN  /\ PlacedName(t, df[1].message_id) = <<"fanart", ".jpg">>
                /\ \A k \in 2..3 :
                       PlacedName(t, df[k].message_id) \in
                           {<<"fanart", ToString(k - 1), ".jpg">>, df[k].original_filename}

\* C14 as amended: of an album of three photos the first is placed as
\* fanart.jpg, the second as snapshot1.jpg and the third as snapshot2.jpg,
\* all in the one directory named by the title of the first caption.
C14_AlbumNamesSnapshotN ==
    \A t \in TaskIds :
        ThreePhotoAlbum(t) =>
            LET df == tasks[t].downloaded_files
            IN  /\ tasks[t].directory = extract_title(caption_of(Buffer(t)))
                /\ tasks[t].directory \in dirs
                /\ PlacedName(t, df[1].message_id) = <<"fanart", ".jpg">>
                /\ PlacedName(t, df[2].message_id) = <<"snapshot", "1", ".jpg">>
                /\ PlacedName(t, df[3].message_id) = <<"snapshot", "2", ".jpg">>
                /\ \A k \in 1..3 :
                       <<tasks[t].directory, PlacedName(t, df[k].message_id)>> \in DOMAIN store

C14_Witness ==
    \E t \in TaskIds :
        /\ ThreePhotoAlbum(t)
        /\ Len(tasks[t].placed_names) = 3
        /\ tasks[t].directory = <<LB, "s", RB, "m">>

\* C15: after the move of a member has failed, the temp file of that member
\* still exists.
C15_FailedMoveLeavesSource ==
    \A t \in TaskIds :
        tasks[t].pc = "reply" /\ tasks[t].failed_member # 0 =>
            \E k \in 1..Len(tasks[t].downloaded_files) :
                /\ tasks[t].downloaded_files[k].message_id = tasks[t].failed_member
                /\ tasks[t].downloaded_files[k].temp_path \in temp

\* C16: a flush that fails returns, with the failure, the members it had
\* placed and the names it gave them.
C16_FailureReportsPartialSummary ==
    \A t \in TaskIds :
        tasks[t].pc = "reply" /\ tasks[t].outcome = "failure" =>
            tasks[t].reported = tasks[t].placed_names

\* Videos of the batch of task t, in the order of downloaded_files.
VideosOf(t) == SelectSeq(tasks[t].downloaded_files, IsVideo)

\* C19 as stated: every video is placed as title + extension.
C19_VideoNamedByTitleOnly ==
    \A t \in TaskIds :
        tasks[t].pc = "reply" =>
            \A k \in 1..Len(VideosOf(t)) :
                VideosOf(t)[k].message_id \in tasks[t].placed =>
                    PlacedName(t, VideosOf(t)[k].message_id) = tasks[t].directory \o <<".mp4">>

\* C19 as amended: the only video of a batch is placed as title + extension;
\* of several videos the k-th, counted from 1, is placed as
\* title + "_" + k + extension; either name is sanitized.
C19_VideoNamedByTitleAndIndex ==
    \A t \in TaskIds :
        tasks[t].pc = "reply" =>
            \A k \in 1..Len(VideosOf(t)) :
                VideosOf(t)[k].message_id \in tasks[t].placed =>
                    PlacedName(t, VideosOf(t)[k].message_id) =
                        sanitize_filename(
                            IF Len(VideosOf(t)) = 1
                            THEN tasks[t].directory \o <<".mp4">>
                            ELSE tasks[t].directory \o <<"_", ToString(k), ".mp4">>)

C19_Witness ==
    \E t \in TaskIds :
        /\ tasks[t].pc = "reply"
        /\ Len(VideosOf(t)) = 2
        /\ \A k \in 1..2 : VideosOf(t)[k].message_id \in tasks[t].placed


\* The category the MIME prefix alone stands for.
ByPrefix(mime_type) ==
    IF StartsWith(mime_type, <<"video", "/">>) THEN "video"
    ELSE IF StartsWith(mime_type, <<"image", "/">>) THEN "photo"
    ELSE IF StartsWith(mime_type, <<"audio", "/">>) THEN "audio"
    ELSE "other"

\* C17: both classifiers give a document the category of its MIME prefix:
\* video/ video, image/ photo, audio/ audio, anything else or none other.
C17_ClassifiedByMimePrefix ==
    ret.kind = "class" /\ arg.media.kind = "document" =>
        /\ ret.single.type = ByPrefix(arg.media.mime_type)
        /\ ret.flush = ByPrefix(arg.media.mime_type)

\* Part of s before its first "#".
BeforeHash(s) ==
    IF FirstIn(s, {"#"}) = 0 THEN s ELSE SubSeq(s, 1, FirstIn(s, {"#"}) - 1)

\* C18 as stated: the title of a caption with a bracketed tag is the text
\* between the closing bracket and the line break, sanitized, without the tag.
C18_TitleIsTextAfterTag ==
    ret.kind = "title" /\ arg.tagged /\ Strip(arg.text, WhiteSpace) # <<>> =>
        ret.title = sanitize_filename(arg.text)

\* C18 as amended: when the first bracketed tag of a caption is followed on
\* its line by text that is not blank, the title is the tag in its brackets
\* followed by that text up to the first "#", stripped of white space, the
\* whole sanitized; the only video of an album with that caption is named
\* title + extension, sanitized.
C18_TitleIsTagAndText ==
    ret.kind = "title" /\ arg.tagged /\ Strip(arg.text, WhiteSpace) # <<>> =>
        LET title == sanitize_filename(<<LB>> \o arg.tag \o <<RB>>
                                           \o Strip(BeforeHash(arg.text), WhiteSpace))
        IN  /\ ret.title = title
            /\ ret.video = sanitize_filename(title \o <<".mp4">>)

C18_Witness ==
    /\ ret.kind = "title"
    /\ MessageText(arg) = <<"e", LB, "s", RB, "m", NL, "d">>
    /\ ret.title = <<LB, "s", RB, "m">>
    /\ ret.video = <<LB, "s", RB, "m", ".mp4">>


\* C20: when the download of a single message fails, by raising or by
\* returning nothing, that step and every later step of the call leave the
\* store and the directories as they are, and the call ends after exactly
\* one reply that reports the failure.
C20_FailedDownloadLeavesStore ==
    /\ [][\A s \in 1..Len(singles) :
             /\ singles'[s] # singles[s]
             /\ singles'[s].download \in {"nothing", "raises"}
             => /\ store' = store
                /\ dirs' = dirs
                /\ singles'[s].pc \in {"fail_reply", "done"}]_vars
    /\ [](\A s \in 1..Len(singles) :
             singles[s].pc = "done" /\ singles[s].download \in {"nothing", "raises"}
             => singles[s].replies = <<"started", "failure">>)

C20_Witness ==
    \E s \in 1..Len(singles), u \in 1..Len(singles) :
        /\ singles[s].pc = "done"
        /\ singles[s].download = "nothing"
        /\ singles[s].media.mime_type = <<"video", "/", "mp4">>
        /\ store = EmptyMap
        /\ dirs = {}
        /\ singles[u].pc = "done"
        /\ singles[u].download = "raises"


\* C21: every title the extractor returns holds no character that is
\* illegal in a file name, neither starts nor ends with a dot or a space,
\* and is at most 100 characters long.
C21_TitleSanitizedAndCapped ==
    ret.kind = "title" =>
        /\ \A k \in 1..Len(ret.title) : ret.title[k] \notin IllegalChars
        /\ ret.title # <<>> =>
               /\ ret.title[1] \notin {".", " "}
               /\ ret.title[Len(ret.title)] \notin {".", " "}
        /\ Len(ret.title) <= 100


\* The entry of group h in a mapping, <<>> when there is none.
EntryOf(map, h) == IF h \in DOMAIN map THEN <<map[h]>> ELSE <<>>

\* Task t takes a step of its own (the clock does not count).
TaskSteps(t) == tasks'[t].pc # tasks[t].pc \/ tasks'[t].i # tasks[t].i

\* The step delivers a message of group h.
Arrives(h) ==
    /\ next_id' # next_id
    /\ h \in DOMAIN media_groups'
    /\ \E k \in 1..Len(media_groups'[h]) : media_groups'[h][k].id = next_id

\* C22: a step changes the buffer or the task handle of a group only when
\* it delivers a message of that group or is a step of a task of that group;
\* the entries of every other group stay as they are.
C22_GroupsIndependent ==
    [][\A h \in GroupIds :
          \/ EntryOf(media_groups', h) # EntryOf(media_groups, h)
          \/ EntryOf(group_tasks', h) # EntryOf(group_tasks, h)
          => \/ Arrives(h)
             \/ \E t \in TaskIds : tasks[t].group_id = h /\ TaskSteps(t)]_vars

C22_Witness ==
    \E t \in TaskIds, u \in TaskIds :
        /\ tasks[t].group_id # tasks[u].group_id
        /\ tasks[t].pc = "done"
        /\ tasks[t].outcome = "success"
        /\ tasks[u].pc = "download"
        /\ tasks[u].group_id \in DOMAIN media_groups
        /\ tasks[u].group_id \in DOMAIN group_tasks
        /\ group_tasks[tasks[u].group_id] = u

\* C24: the buffer mapping and the task mapping hold the same group_ids.
C24_SameGroupIds == DOMAIN media_groups = DOMAIN group_tasks

C24_Witness ==
    \E t \in TaskIds, u \in TaskIds :
        /\ tasks[t].pc = "err_reply"
        /\ tasks[t].group_id \notin DOMAIN media_groups
        /\ tasks[t].group_id \notin DOMAIN group_tasks
        /\ tasks[u].pc = "sleep"
        /\ DOMAIN media_groups = {tasks[u].group_id}
        /\ DOMAIN group_tasks = {tasks[u].group_id}

\* Task t calls process_media_group in this step.
Flushes(t) == tasks[t].pc = "download" /\ tasks'[t].pc = "reply"

\* C25: when process_media_group has returned, with or without success, no
\* file of its batch is left at its temp path.
C25_NoTempLeftAfterFlush ==
    [][\A t \in TaskIds :
          Flushes(t) =>
              \A k \in 1..Len(tasks'[t].downloaded_files) :
                  tasks'[t].downloaded_files[k].temp_path \notin temp']_vars

C25_Witness ==
    \E t \in TaskIds :
        /\ tasks[t].pc = "reply"
        /\ tasks[t].outcome = "failure"
        /\ Len(tasks[t].downloaded_files) = 3
        /\ Cardinality(tasks[t].placed) = 1
        /\ temp = {}

\* C27: the files of a batch are all placed in the one step in which its
\* task calls process_media_group: a step that changes the store is the
\* call of exactly one task, writes only members of that task's batch, all
\* of them when the call succeeds, and in it no message arrives and no
\* other task and no single-message call moves; the placed members of a
\* task change in no other step of a running task.
C27_PlacementIsOneStep ==
    [][/\ store' # store =>
              \E t \in TaskIds :
                  /\ Flushes(t)
                  /\ Len(tasks') = Len(tasks)
                  /\ \A u \in TaskIds \ {t} : tasks'[u] = tasks[u]
                  /\ media_groups' = media_groups
                  /\ group_tasks' = group_tasks
                  /\ next_id' = next_id
                  /\ singles' = singles
                  /\ \A p \in DOMAIN store' :
                         p \notin DOMAIN store \/ store'[p] # store[p]
                             => store'[p] \in tasks'[t].placed
                  /\ tasks'[t].outcome = "success" =>
                         tasks'[t].placed =
                             {tasks'[t].downloaded_files[k].message_id :
                                  k \in 1..Len(tasks'[t].downloaded_files)}
       /\ \A t \in TaskIds :
              tasks'[t].placed # tasks[t].placed /\ tasks'[t].pc # "done" => Flushes(t)]_vars

C27_Witness ==
    \E t \in TaskIds, u \in TaskIds :
        /\ t # u
        /\ tasks[t].pc = "reply"
        /\ tasks[t].outcome = "success"
        /\ Cardinality(tasks[t].placed) = 2
        /\ tasks[u].pc = "download"
        /\ extract_title(caption_of(Buffer(u))) = tasks[t].directory


\* Names the flush gave to the members it placed.
NamedFanart == {k \in 1..Len(ret.names) : ret.names[k].name = photo_filename(0)}

\* C23: in a successful flush with at least one downloaded photo, exactly
\* one member is named fanart.jpg, and it is the first downloaded photo.
C23_OneMemberNamedFanart ==
    ret.kind = "flush" /\ ret.success /\ photo_count(ret.files) >= 1 =>
        /\ Cardinality(NamedFanart) = 1
        /\ \A k \in NamedFanart :
               ret.names[k].id = SelectSeq(ret.files, IsPhoto)[1].message_id

\* The part of C23 about the photos alone: one photo is named fanart.jpg,
\* and it is the first downloaded photo.
C23_OnePhotoNamedFanart ==
    ret.kind = "flush" /\ ret.success /\ photo_count(ret.files) >= 1 =>
        LET PhotoIds == {ret.files[k].message_id :
                            k \in {j \in 1..Len(ret.files) : IsPhoto(ret.files[j])}}
        IN  \A k \in NamedFanart :
                ret.names[k].id \in PhotoIds =>
                    ret.names[k].id = SelectSeq(ret.files, IsPhoto)[1].message_id

PathSeparators == {"/", "\\"}

\* C26: a flush writes into one directory only, the one named by the title
\* of the first message's caption (the default title when it has none); the
\* name is not empty, is neither . nor .., and holds no path separator.
C26_OneDirectoryUnderBase ==
    ret.kind = "flush" =>
        /\ ret.directory = (IF arg.messages[1].text = <<>> THEN DefaultTitle
                            ELSE extract_title(arg.messages[1].text))
        /\ ret.directory \notin { <<>>, <<".">>, <<".", ".">> }
        /\ \A k \in 1..Len(ret.directory) : ret.directory[k] \notin PathSeparators
        /\ \A p \in DOMAIN store : p[1] = ret.directory
        /\ \A k \in 1..Len(ret.names) : <<ret.directory, ret.names[k].name>> \in DOMAIN store
        /\ dirs \subseteq {ret.directory}

C26_Witness ==
    /\ ret.kind = "flush"
    /\ ret.success
    /\ Cardinality(ret.placed) = 3
    /\ arg.messages[1].text = <<".", ".", "/", "x">>
    /\ arg.messages[3].text # <<>>
    /\ Cardinality(DOMAIN store) = 3

====
